---- MODULE Spec2Model ----
(***************************************************************************)
(* Model of chatbot.py: vocabulary, batch builder (batch2TrainData), one   *)
(* training iteration (train), the outer loop (trainIters) and the         *)
(* module-level checkpoint restore.                                        *)
(*                                                                         *)
(* A sentence is the sequence of its words (the result of split(" ")), a   *)
(* pair is <<query, response>>.  Tensors are sequences of rows; row t of   *)
(* the source (0-based) is row t+1 here.  Python floats are modelled as    *)
(* exact rationals <<numerator, denominator>> in lowest terms.             *)
(***************************************************************************)
EXTENDS Integers, Sequences, FiniteSets, TLC

\* ------------------------------------------------------------------ bounds
\* most words per sentence of the batch-builder inputs
MaxWords == 2
\* longest pair list handed to batch2TrainData in SpecBatch
MaxB == 2
\* n_iteration of the training run (4000 in the source, scaled down)
NIteration == 2
\* print_every and save_every range over 1..MaxEvery
MaxEvery == 2

\* --------------------------------------------------------- program constants
PAD_token == 0
SOS_token == 1
EOS_token == 2
MAX_LENGTH == 10
MIN_COUNT == 3

\* ------------------------------------------------------------------ helpers
Range(s) == {s[i] : i \in 1..Len(s)}

\* dict assignment d[k] = v
Put(d, k, v) == [x \in (DOMAIN d) \cup {k} |-> IF x = k THEN v ELSE d[x]]

EmptyDict == [x \in {} |-> 0]

\* max([...]) of a non-empty list of integers
MaxOf(l) == CHOOSE m \in Range(l) : \A x \in Range(l) : x <= m

\* ---------------------------------------------------------------- class Voc
\* a Voc counting two reserved tokens
VocInitTwo ==
  [trimmed |-> FALSE,
   word2index |-> EmptyDict,
   word2count |-> EmptyDict,
   index2word |-> (PAD_token :> "PAD") @@ (SOS_token :> "SOS") @@ (EOS_token :> "EOS"),
   num_words |-> 2]

VocInit ==
  [trimmed |-> FALSE,
   word2index |-> EmptyDict,
   word2count |-> EmptyDict,
   index2word |-> (PAD_token :> "PAD") @@ (SOS_token :> "SOS") @@ (EOS_token :> "EOS"),
   num_words |-> 3]

addWord(v, word) ==
  IF word \notin DOMAIN v.word2index
  THEN [v EXCEPT !.word2index = Put(@, word, v.num_words),
                 !.word2count = Put(@, word, 1),
                 !.index2word = Put(@, v.num_words, word),
                 !.num_words = @ + 1]
  ELSE [v EXCEPT !.word2count = Put(@, word, v.word2count[word] + 1)]

RECURSIVE addSentence(_, _)
addSentence(v, sentence) ==
  IF sentence = << >> THEN v
  ELSE addSentence(addWord(v, Head(sentence)), Tail(sentence))

\* the keys of word2count in insertion order: a word enters word2count when it
\* is given the next index, so insertion order is index order
RECURSIVE keepWords(_, _, _)
keepWords(v, min_count, i) ==
  IF i >= v.num_words THEN << >>
  ELSE LET k == v.index2word[i]
       IN  (IF v.word2count[k] >= min_count THEN <<k>> ELSE << >>)
           \o keepWords(v, min_count, i + 1)

\* trim not resetting num_words before the kept words are added again
trimKeepsNumWords(v, min_count) ==
  IF v.trimmed THEN v
  ELSE addSentence([VocInit EXCEPT !.trimmed = TRUE, !.num_words = v.num_words],
                   keepWords(v, min_count, 3))

trim(v, min_count) ==
  IF v.trimmed THEN v
  ELSE addSentence([VocInit EXCEPT !.trimmed = TRUE], keepWords(v, min_count, 3))

\* the print of trim divides by len(self.word2index): with no word it raises,
\* after self.trimmed = True and before the dictionaries are rebuilt
trimRaised(v) ==
  IF ~v.trimmed /\ DOMAIN v.word2index = {} THEN "ZeroDivisionError" ELSE "none"

\* ------------------------------------------------------------ batch builder
\* every word of the sentence is a key of word2index (else the lookup raises)
KnownSentence(v, sentence) == \A i \in 1..Len(sentence) : sentence[i] \in DOMAIN v.word2index

indexesFromSentence(v, sentence) ==
  [i \in 1..Len(sentence) |-> v.word2index[sentence[i]]] \o <<EOS_token>>

\* itertools.zip_longest(*l, fillvalue): row t holds token t of every sequence
zeroPadding(l, fillvalue) ==
  IF l = << >> THEN << >>
  ELSE LET n == MaxOf([i \in 1..Len(l) |-> Len(l[i])])
       IN  [t \in 1..n |-> [i \in 1..Len(l) |->
              IF t <= Len(l[i]) THEN l[i][t] ELSE fillvalue]]

\* binaryMatrix testing for the wrong reserved token
binaryMatrixEOS(l) ==
  [i \in 1..Len(l) |-> [j \in 1..Len(l[i]) |-> IF l[i][j] = EOS_token THEN 0 ELSE 1]]

binaryMatrix(l) ==
  [i \in 1..Len(l) |-> [j \in 1..Len(l[i]) |-> IF l[i][j] = PAD_token THEN 0 ELSE 1]]

\* torch.BoolTensor of a 0/1 matrix
BoolTensor(m) == [i \in 1..Len(m) |-> [j \in 1..Len(m[i]) |-> m[i][j] # 0]]

\* the sort without reverse = True
RECURSIVE sortPairsAscending(_)
sortPairsAscending(l) ==
  IF l = << >> THEN << >>
  ELSE LET s == sortPairsAscending(SubSeq(l, 1, Len(l) - 1))
           x == l[Len(l)]
           k == Cardinality({i \in 1..Len(s) : Len(s[i][1]) <= Len(x[1])})
       IN  SubSeq(s, 1, k) \o <<x>> \o SubSeq(s, k + 1, Len(s))

\* list.sort(key = number of words of the query, reverse = True): stable, so
\* pairs with equal keys keep their relative order
RECURSIVE sortPairs(_)
sortPairs(l) ==
  IF l = << >> THEN << >>
  ELSE LET s == sortPairs(SubSeq(l, 1, Len(l) - 1))
           x == l[Len(l)]
           k == Cardinality({i \in 1..Len(s) : Len(s[i][1]) >= Len(x[1])})
       IN  SubSeq(s, 1, k) \o <<x>> \o SubSeq(s, k + 1, Len(s))

inputVar(l, v) ==
  LET indexes_batch == [i \in 1..Len(l) |-> indexesFromSentence(v, l[i])]
  IN  [padVar |-> zeroPadding(indexes_batch, PAD_token),
       lengths |-> [i \in 1..Len(l) |-> Len(indexes_batch[i])]]

\* outputVar padding one row too many and counting it
outputVarPadded(l, v) ==
  LET indexes_batch == [i \in 1..Len(l) |-> indexesFromSentence(v, l[i])]
      n == MaxOf([i \in 1..Len(l) |-> Len(indexes_batch[i])]) + 1
      padList == [k \in 1..n |-> [i \in 1..Len(l) |->
                    IF k <= Len(indexes_batch[i]) THEN indexes_batch[i][k] ELSE PAD_token]]
  IN  [padVar |-> padList,
       mask |-> BoolTensor(binaryMatrix(padList)),
       max_target_len |-> n]

outputVar(l, v) ==
  LET indexes_batch == [i \in 1..Len(l) |-> indexesFromSentence(v, l[i])]
      padList == zeroPadding(indexes_batch, PAD_token)
  IN  [padVar |-> padList,
       mask |-> BoolTensor(binaryMatrix(padList)),
       max_target_len |-> MaxOf([i \in 1..Len(l) |-> Len(indexes_batch[i])])]

NoBatch ==
  [inp |-> << >>, lengths |-> << >>, output |-> << >>, mask |-> << >>, max_target_len |-> 0]

\* batch2TrainData taking the responses from the list as it was before the sort
batch2TrainDataOutputUnsorted(v, pair_batch) ==
  LET sorted == sortPairs(pair_batch)
      input_batch == [i \in 1..Len(sorted) |-> sorted[i][1]]
      output_batch == [i \in 1..Len(pair_batch) |-> pair_batch[i][2]]
  IN  IF \E i \in 1..Len(sorted) : ~KnownSentence(v, input_batch[i])
        THEN [pair_batch |-> sorted, raised |-> "KeyError", ret |-> NoBatch]
      ELSE IF \E i \in 1..Len(sorted) : ~KnownSentence(v, output_batch[i])
        THEN [pair_batch |-> sorted, raised |-> "KeyError", ret |-> NoBatch]
      ELSE IF sorted = << >>
        THEN [pair_batch |-> sorted, raised |-> "ValueError", ret |-> NoBatch]
      ELSE LET iv == inputVar(input_batch, v)
               ov == outputVar(output_batch, v)
           IN  [pair_batch |-> sorted, raised |-> "none",
                ret |-> [inp |-> iv.padVar, lengths |-> iv.lengths, output |-> ov.padVar,
                         mask |-> ov.mask, max_target_len |-> ov.max_target_len]]

\* result of batch2TrainData(voc, pair_batch): the list as the in-place sort
\* leaves it, the exception raised (if any) and the returned tuple
batch2TrainData(v, pair_batch) ==
  LET sorted == sortPairs(pair_batch)
      input_batch == [i \in 1..Len(sorted) |-> sorted[i][1]]
      output_batch == [i \in 1..Len(sorted) |-> sorted[i][2]]
  IN  IF \E i \in 1..Len(sorted) : ~KnownSentence(v, input_batch[i])
        THEN [pair_batch |-> sorted, raised |-> "KeyError", ret |-> NoBatch]
      ELSE IF \E i \in 1..Len(sorted) : ~KnownSentence(v, output_batch[i])
        THEN [pair_batch |-> sorted, raised |-> "KeyError", ret |-> NoBatch]
      ELSE IF sorted = << >>
        THEN [pair_batch |-> sorted, raised |-> "ValueError", ret |-> NoBatch]
      ELSE LET iv == inputVar(input_batch, v)
               ov == outputVar(output_batch, v)
           IN  [pair_batch |-> sorted, raised |-> "none",
                ret |-> [inp |-> iv.padVar, lengths |-> iv.lengths, output |-> ov.padVar,
                         mask |-> ov.mask, max_target_len |-> ov.max_target_len]]


\* ------------------------------------------------------------- preprocessing
filterPair(p) == Len(p[1]) < MAX_LENGTH /\ Len(p[2]) < MAX_LENGTH

filterPairs(ps) == SelectSeq(ps, filterPair)

RECURSIVE addPairs(_, _)
addPairs(v, ps) ==
  IF ps = << >> THEN v
  ELSE addPairs(addSentence(addSentence(v, Head(ps)[1]), Head(ps)[2]), Tail(ps))

\* loadPrepareData: the vocabulary and the pairs of a datafile
loadPrepareData(datafile) ==
  LET ps == filterPairs(datafile)
  IN  [voc |-> addPairs(VocInit, ps), pairs |-> ps]

\* trimRareWords keeping a pair whose query alone has no trimmed word
trimRareWordsByQuery(v, ps, min_count) ==
  LET tv == trim(v, min_count)
      keep(pair) == KnownSentence(tv, pair[1])
  IN  [voc |-> tv, pairs |-> SelectSeq(ps, keep),
       raised |-> IF trimRaised(v) # "none" THEN trimRaised(v)
                  ELSE IF ps = << >> THEN "ZeroDivisionError" ELSE "none"]

\* trimRareWords(voc, pairs, MIN_COUNT): the vocabulary as the call leaves it,
\* keep_pairs and the exception raised (if any; the print divides by len(pairs))
trimRareWords(v, ps, min_count) ==
  LET tv == trim(v, min_count)
      keep(pair) == KnownSentence(tv, pair[1]) /\ KnownSentence(tv, pair[2])
  IN  [voc |-> tv, pairs |-> SelectSeq(ps, keep),
       raised |-> IF trimRaised(v) # "none" THEN trimRaised(v)
                  ELSE IF ps = << >> THEN "ZeroDivisionError" ELSE "none"]

\* --------------------------------------------------------------- arithmetic
RECURSIVE GCD(_, _)
GCD(a, b) == IF b = 0 THEN a ELSE GCD(b, a % b)

\* the float n/d; 0/0 stands for nan
Rat(n, d) == IF d = 0 THEN <<0, 0>> ELSE <<n \div GCD(n, d), d \div GCD(n, d)>>
RatAdd(x, y) == Rat(x[1] * y[2] + y[1] * x[2], x[2] * y[2])
RatMul(x, k) == Rat(x[1] * k, x[2])
RatDiv(x, k) == Rat(x[1], x[2] * k)

RECURSIVE SumInts(_)
SumInts(l) == IF l = << >> THEN 0 ELSE Head(l) + SumInts(Tail(l))

RECURSIVE SumRats(_)
SumRats(l) == IF l = << >> THEN <<0, 1>> ELSE RatAdd(Head(l), SumRats(Tail(l)))

\* ------------------------------------------------------------- masked loss
\* crossEntropy holds -log p(target) of every column, mask the mask row
maskNLLLoss(crossEntropy, mask) ==
  LET sel == {i \in 1..Len(mask) : mask[i]}
      nTotal == Cardinality(sel)
      picked == [i \in 1..Len(mask) |-> IF mask[i] THEN crossEntropy[i] ELSE 0]
  IN  [loss |-> Rat(SumInts(picked), nTotal), nTotal |-> nTotal]

\* ------------------------------------------------------ model and optimizers
Params == {"embedding", "encoder.gru", "decoder.gru", "decoder.concat", "decoder.out"}
\* encoder.parameters() and decoder.parameters(): both modules hold the one
\* embedding object as a sub-module (attn_model is 'dot': no attention weights)
encoder_parameters == {"embedding", "encoder.gru"}
decoder_parameters == {"embedding", "decoder.gru", "decoder.concat", "decoder.out"}

Components ==
  {"voc", "embedding", "encoder", "decoder", "encoder_optimizer", "decoder_optimizer"}

\* --------------------------------------------------------------- checkpoints
\* a state_dict: the shape of its tensors ("cfg": the configured dimensions)
\* and, per tensor, how many optimizer updates its value has seen
StateDict(shape, w) == [shape |-> shape, w |-> w]

NoCheckpoint == [iteration |-> 0]

\* the record torch.save writes / torch.load reads
Checkpoint(it, en, de, en_opt, de_opt, l, v, emb) ==
  [iteration |-> it, en |-> en, de |-> de, en_opt |-> en_opt, de_opt |-> de_opt,
   loss |-> l, voc_dict |-> v, embedding |-> emb]

\* ------------------------------------------------------------------- inputs
\* the values -log p(target) of one position is drawn from
CrossEntropies == {1, 2}

\* words the batch-builder inputs are made of; "zzz" is in no vocabulary
Words == {"a", "b"}
UnknownWord == "zzz"

SentencesOver(W, n) == UNION {[1..k -> W] : k \in 1..n}
BatchSentences == SentencesOver(Words, MaxWords) \cup {<<UnknownWord>>}
BatchPairs == BatchSentences \X BatchSentences
BatchVocs == {addSentence(VocInit, <<"a", "b">>), addSentence(VocInit, <<"b", "a">>)}

\* the datafile of the training run: "c" is rare and trimmed with its pair
Datafile ==
  << <<(<<"a">>), (<<"a">>)>>,
     <<(<<"a", "b">>), (<<"b", "b">>)>>,
     <<(<<"c">>), (<<"a">>)>> >>

Prepared ==
  LET d == loadPrepareData(Datafile)
  IN  trimRareWords(d.voc, d.pairs, MIN_COUNT)

\* a checkpoint file written by an earlier run at iteration k, whose component
\* bad (if any) has other dimensions than the configured model
CheckpointFile(k, v, bad) ==
  LET sh(c) == IF bad = c THEN "other" ELSE "cfg"
      w(ps) == [q \in ps |-> k]
  IN  Checkpoint(k, StateDict(sh("en"), w(encoder_parameters)),
                 StateDict(sh("de"), w(decoder_parameters)),
                 StateDict(sh("en_opt"), w(encoder_parameters)),
                 StateDict(sh("de_opt"), w(decoder_parameters)),
                 <<1, 1>>, v, StateDict(sh("embedding"), w({"embedding"})))

\* the vocabularies of the checkpoints: the one of this corpus, one with other
\* indices and one without the word "b"
CheckpointVocs ==
  {Prepared.voc, addSentence(VocInit, <<"b", "a">>), addSentence(VocInit, <<"a">>)}

CheckpointFiles ==
  {CheckpointFile(k, v, bad) :
     k \in 1..(NIteration + 1),
     v \in CheckpointVocs,
     bad \in {"none", "embedding", "en", "de", "en_opt", "de_opt"}}

VARIABLES
  pc,          \* position of the program
  error,       \* the exception that ended the run ("none" while it runs)
  voc,         \* the vocabulary object
  pairs,       \* the sentence pairs of the corpus
  pair_batch,  \* the list the caller hands to batch2TrainData
  arg_batch,   \* that list as it was when the call was made
  batch,       \* the tuple batch2TrainData returned
  sampled,     \* the pair lists trainIters drew for its batches, in order
  \* configuration
  loadFilename, ckptFile, n_iteration, print_every, save_every,
  teacher_forcing_ratio, batch_size,
  \* model and optimizers
  origin,      \* per live component: "unbuilt", "fresh" or "checkpoint"
  weights,     \* per parameter tensor: optimizer updates its value has seen
  grad,        \* per parameter tensor: "none", "zero" or "grad"
  opt_steps,   \* per optimizer: state (updates seen) of each of its tensors
  \* trainIters
  checkpoint, training_batches, start_iteration, iteration, print_loss,
  ti_loss,     \* the local loss of trainIters
  saved,       \* the checkpoint records written, in order
  logged,      \* the <<iteration, average loss>> lines printed, in order
  ran,         \* the <<iteration, loss>> of every train() call that returned
  \* train
  training_batch, loss, print_losses, n_totals, decoder_input, topi,
  use_teacher_forcing, t,
  \* observations of the current train() call
  phases,      \* the phases performed, in order
  draws,       \* calls of random.random()
  loss_calls,  \* per step: what maskNLLLoss returned, its target and mask argument
  n_clip,      \* per parameter tensor: gradient clippings
  n_step,      \* per parameter tensor: optimizer updates
  \* evaluation: the attention layer, evaluateInput, evaluate, GreedySearchDecoder
  attn_model,  \* the configured attention method
  attn,        \* the Attn object of the decoder
  max_length,  \* max_length of evaluate
  input_sentence, \* the line input() returned, a sequence of characters
  input_seq,   \* the input_seq handed to the searcher
  all_tokens, all_scores,
  printed,     \* the line evaluateInput printed last
  n_encoder,   \* encoder calls of the current forward
  fed,         \* the decoder_input of every decoder call of the current forward
  scored,      \* the score function Attn.forward used last ("none": no call yet)
  \* trimRareWords
  arg_pairs,   \* the pair list the last call was given
  arg_min_count, \* the MIN_COUNT the last call was given
  ops          \* Voc operations performed so far

dataVars == <<voc, pairs>>
batchVars == <<pair_batch, arg_batch, batch, sampled>>
cfgVars == <<loadFilename, ckptFile, n_iteration, print_every, save_every,
             teacher_forcing_ratio, batch_size>>
modelVars == <<origin, weights, grad, opt_steps>>
loopVars == <<checkpoint, training_batches, start_iteration, iteration, print_loss,
              ti_loss, saved, logged, ran>>
trainVars == <<training_batch, loss, print_losses, n_totals, decoder_input, topi,
               use_teacher_forcing, t>>
obsVars == <<phases, draws, loss_calls, n_clip, n_step>>
evalVars == <<attn_model, attn, max_length, input_sentence, input_seq, all_tokens, all_scores,
              printed, n_encoder, fed, scored>>
vocVars == <<arg_pairs, arg_min_count, ops>>
vars == <<pc, error, dataVars, batchVars, cfgVars, modelVars, loopVars, trainVars, obsVars,
          evalVars, vocVars>>

\* values of the variables a specification does not use
IdleBatch == pair_batch = << >> /\ arg_batch = << >> /\ batch = NoBatch /\ sampled = << >>

IdleModel ==
  /\ origin = [c \in Components |-> IF c = "voc" THEN "fresh" ELSE "unbuilt"]
  /\ weights = [p \in Params |-> 0]
  /\ grad = [p \in Params |-> "none"]
  /\ opt_steps = [o \in {"encoder_optimizer", "decoder_optimizer"} |-> EmptyDict]

IdleLoop ==
  /\ checkpoint = NoCheckpoint /\ training_batches = << >> /\ start_iteration = 0
  /\ iteration = 0 /\ print_loss = <<0, 1>> /\ ti_loss = <<0, 1>>
  /\ saved = << >> /\ logged = << >> /\ ran = << >>

IdleTrain ==
  /\ training_batch = NoBatch /\ loss = <<0, 1>> /\ print_losses = << >> /\ n_totals = 0
  /\ decoder_input = << >> /\ topi = << >> /\ use_teacher_forcing = FALSE /\ t = 0

IdleObs ==
  /\ phases = << >> /\ draws = 0 /\ loss_calls = << >>
  /\ n_clip = [p \in Params |-> 0] /\ n_step = [p \in Params |-> 0]

IdleCfg ==
  /\ loadFilename = "None" /\ ckptFile = NoCheckpoint /\ n_iteration = 0
  /\ print_every = 1 /\ save_every = 1 /\ teacher_forcing_ratio = 10 /\ batch_size = 0

NoAttn == [method |-> "none", layers |-> {}]

IdleEval ==
  /\ attn_model = "dot" /\ attn = NoAttn /\ max_length = MAX_LENGTH
  /\ input_sentence = << >> /\ input_seq = << >> /\ all_tokens = << >> /\ all_scores = << >>
  /\ printed = << >> /\ n_encoder = 0 /\ fed = << >> /\ scored = "none"

IdleVoc == arg_pairs = << >> /\ arg_min_count = 0 /\ ops = 0

\* ------------------------------------------------- batch builder as a program
InitBatch ==
  /\ pc = "batch_call"
  /\ error = "none"
  /\ voc \in BatchVocs
  /\ pairs = << >>
  /\ pair_batch \in UNION {[1..k -> BatchPairs] : k \in 0..MaxB}
  /\ arg_batch = pair_batch
  /\ batch = NoBatch
  /\ sampled = << >>
  /\ IdleCfg /\ IdleModel /\ IdleLoop /\ IdleTrain /\ IdleObs /\ IdleEval /\ IdleVoc

\* batches = batch2TrainData(voc, [...])
CallBatch2TrainData ==
  /\ pc = "batch_call"
  /\ LET r == batch2TrainData(voc, pair_batch)
     IN  /\ pair_batch' = r.pair_batch
         /\ batch' = r.ret
         /\ error' = r.raised
         /\ pc' = IF r.raised = "none" THEN "batch_done" ELSE "crashed"
  /\ UNCHANGED <<dataVars, arg_batch, sampled, cfgVars, evalVars, vocVars,
                 modelVars, loopVars, trainVars, obsVars>>

NextBatch == CallBatch2TrainData

SpecBatch == InitBatch /\ [][NextBatch]_vars

\* ------------------------------------------------------------------- train()
ObsInit ==
  /\ phases' = << >> /\ draws' = 0 /\ loss_calls' = << >>
  /\ n_clip' = [p \in Params |-> 0] /\ n_step' = [p \in Params |-> 0]

\* optimizer.zero_grad() over the tensors ps the optimizer holds
ZeroGrad(ps) == [p \in Params |-> IF p \in ps /\ grad[p] # "none" THEN "zero" ELSE grad[p]]

\* nn.utils.clip_grad_norm_(ps, clip): touches every tensor of ps that has a gradient
ClipGrad(ps) == [p \in Params |-> IF p \in ps /\ grad[p] # "none" THEN n_clip[p] + 1 ELSE n_clip[p]]

\* the tensors optimizer.step() updates: those it holds that have a gradient
Stepped(ps) == {p \in ps : grad[p] # "none"}

\* encoder_optimizer.zero_grad()
ZeroGradEncoder ==
  /\ pc = "zero_grad_encoder"
  /\ grad' = ZeroGrad(encoder_parameters)
  /\ phases' = Append(phases, "zero_grad_encoder")
  /\ pc' = "zero_grad_decoder"
  /\ UNCHANGED <<error, dataVars, batchVars, cfgVars, evalVars, vocVars,
                 origin, weights, opt_steps, loopVars,
                 trainVars, draws, loss_calls, n_clip, n_step>>

\* train() without decoder_optimizer.zero_grad()
ZeroGradDecoderSkipped ==
  /\ pc = "zero_grad_decoder"
  /\ pc' = "encoder"
  /\ UNCHANGED <<error, dataVars, batchVars, cfgVars, evalVars, vocVars,
                 modelVars, loopVars, trainVars, obsVars>>

\* decoder_optimizer.zero_grad()
ZeroGradDecoder ==
  /\ pc = "zero_grad_decoder"
  /\ grad' = ZeroGrad(decoder_parameters)
  /\ phases' = Append(phases, "zero_grad_decoder")
  /\ pc' = "encoder"
  /\ UNCHANGED <<error, dataVars, batchVars, cfgVars, evalVars, vocVars,
                 origin, weights, opt_steps, loopVars,
                 trainVars, draws, loss_calls, n_clip, n_step>>

\* loss = 0; print_losses = []; n_totals = 0; encoder(input_variable, lengths)
EncoderForward ==
  /\ pc = "encoder"
  /\ loss' = <<0, 1>>
  /\ print_losses' = << >>
  /\ n_totals' = 0
  /\ phases' = Append(phases, "encoder")
  /\ pc' = "decoder_init"
  /\ UNCHANGED <<error, dataVars, batchVars, cfgVars, evalVars, vocVars,
                 modelVars, loopVars, training_batch,
                 decoder_input, topi, use_teacher_forcing, t, draws, loss_calls,
                 n_clip, n_step>>

\* decoder_input = SOS row; use_teacher_forcing = random.random() < teacher_forcing_ratio
\* (random.random() in tenths, 0..9)
DecoderInit ==
  /\ pc = "decoder_init"
  /\ decoder_input' = [i \in 1..batch_size |-> SOS_token]
  /\ \E r \in 0..9 : use_teacher_forcing' = (r < teacher_forcing_ratio)
  /\ draws' = draws + 1
  /\ t' = 0
  /\ pc' = "decode"
  /\ UNCHANGED <<error, dataVars, batchVars, cfgVars, evalVars, vocVars,
                 modelVars, loopVars, training_batch,
                 loss, print_losses, n_totals, topi, phases, loss_calls, n_clip, n_step>>

\* what one decoder call and the loss of its step leave behind; crossEntropy is
\* -log p(target) per column as the decoder's output gives it
Accumulate(crossEntropy) ==
  LET r == maskNLLLoss(crossEntropy, training_batch.mask[t + 1])
  IN  /\ loss' = RatAdd(loss, r.loss)
      /\ print_losses' = Append(print_losses, RatMul(r.loss, r.nTotal))
      /\ n_totals' = n_totals + r.nTotal
      /\ loss_calls' = Append(loss_calls, [loss |-> r.loss, nTotal |-> r.nTotal,
                                           target |-> training_batch.output[t + 1],
                                           mask |-> training_batch.mask[t + 1]])

\* one pass of the loop "for t in range(max_target_len)" under teacher forcing
TeacherForcingStep ==
  /\ pc = "decode" /\ use_teacher_forcing /\ t < training_batch.max_target_len
  /\ \E crossEntropy \in [1..batch_size -> CrossEntropies] : Accumulate(crossEntropy)
  /\ decoder_input' = training_batch.output[t + 1]
  /\ t' = t + 1
  /\ phases' = Append(phases, "decoder")
  /\ UNCHANGED <<pc, error, dataVars, batchVars, cfgVars, evalVars, vocVars,
                 modelVars, loopVars, training_batch,
                 topi, use_teacher_forcing, draws, n_clip, n_step>>

\* the loop without teacher forcing feeding the target all the same
FreeRunningStepFeedsTarget ==
  /\ pc = "decode" /\ ~use_teacher_forcing /\ t < training_batch.max_target_len
  /\ \E crossEntropy \in [1..batch_size -> CrossEntropies] : Accumulate(crossEntropy)
  /\ \E top \in [1..batch_size -> 0..(voc.num_words - 1)] : topi' = top
  /\ decoder_input' = training_batch.output[t + 1]
  /\ t' = t + 1
  /\ phases' = Append(phases, "decoder")
  /\ UNCHANGED <<pc, error, dataVars, batchVars, cfgVars, evalVars, vocVars,
                 modelVars, loopVars, training_batch,
                 use_teacher_forcing, draws, n_clip, n_step>>

\* the loop without teacher forcing ending once every column predicts EOS
FreeRunningStepStopsAtEOS ==
  /\ pc = "decode" /\ ~use_teacher_forcing /\ t < training_batch.max_target_len
  /\ \E crossEntropy \in [1..batch_size -> CrossEntropies] : Accumulate(crossEntropy)
  /\ \E top \in [1..batch_size -> 0..(voc.num_words - 1)] :
       /\ topi' = top
       /\ decoder_input' = top
       /\ t' = IF \A i \in 1..batch_size : top[i] = EOS_token
               THEN training_batch.max_target_len ELSE t + 1
  /\ phases' = Append(phases, "decoder")
  /\ UNCHANGED <<pc, error, dataVars, batchVars, cfgVars, evalVars, vocVars,
                 modelVars, loopVars, training_batch,
                 use_teacher_forcing, draws, n_clip, n_step>>

\* one pass of the loop without teacher forcing: the next input is the
\* decoder's top token of this step, any of its output_size = voc.num_words tokens
FreeRunningStep ==
  /\ pc = "decode" /\ ~use_teacher_forcing /\ t < training_batch.max_target_len
  /\ \E crossEntropy \in [1..batch_size -> CrossEntropies] : Accumulate(crossEntropy)
  /\ \E top \in [1..batch_size -> 0..(voc.num_words - 1)] :
       /\ topi' = top
       /\ decoder_input' = top
  /\ t' = t + 1
  /\ phases' = Append(phases, "decoder")
  /\ UNCHANGED <<pc, error, dataVars, batchVars, cfgVars, evalVars, vocVars,
                 modelVars, loopVars, training_batch,
                 use_teacher_forcing, draws, n_clip, n_step>>

\* the loop is over: loss.backward()
Backward ==
  /\ pc = "decode" /\ t >= training_batch.max_target_len
  /\ IF training_batch.max_target_len = 0
     THEN /\ error' = "AttributeError" /\ pc' = "crashed"
          /\ UNCHANGED <<grad, phases>>
     ELSE /\ grad' = [p \in Params |-> "grad"]
          /\ phases' = Append(phases, "backward")
          /\ pc' = "clip_encoder"
          /\ UNCHANGED error
  /\ UNCHANGED <<dataVars, batchVars, cfgVars, evalVars, vocVars,
                 origin, weights, opt_steps, loopVars, trainVars,
                 draws, loss_calls, n_clip, n_step>>

\* nn.utils.clip_grad_norm_(encoder.parameters(), clip)
ClipEncoder ==
  /\ pc = "clip_encoder"
  /\ n_clip' = ClipGrad(encoder_parameters)
  /\ phases' = Append(phases, "clip_encoder")
  /\ pc' = "clip_decoder"
  /\ UNCHANGED <<error, dataVars, batchVars, cfgVars, evalVars, vocVars,
                 modelVars, loopVars, trainVars,
                 draws, loss_calls, n_step>>

\* nn.utils.clip_grad_norm_(decoder.parameters(), clip)
ClipDecoder ==
  /\ pc = "clip_decoder"
  /\ n_clip' = ClipGrad(decoder_parameters)
  /\ phases' = Append(phases, "clip_decoder")
  /\ pc' = "step_encoder"
  /\ UNCHANGED <<error, dataVars, batchVars, cfgVars, evalVars, vocVars,
                 modelVars, loopVars, trainVars,
                 draws, loss_calls, n_step>>

\* optimizer.step() of the optimizer named o, which holds the tensors ps
OptimizerStep(o, ps) ==
  /\ weights' = [p \in Params |-> IF p \in Stepped(ps) THEN weights[p] + 1 ELSE weights[p]]
  /\ n_step' = [p \in Params |-> IF p \in Stepped(ps) THEN n_step[p] + 1 ELSE n_step[p]]
  /\ opt_steps' = [opt_steps EXCEPT ![o] =
                     [p \in DOMAIN @ |-> IF p \in Stepped(ps) THEN @[p] + 1 ELSE @[p]]]

\* encoder_optimizer.step()
StepEncoder ==
  /\ pc = "step_encoder"
  /\ OptimizerStep("encoder_optimizer", encoder_parameters)
  /\ phases' = Append(phases, "step_encoder")
  /\ pc' = "step_decoder"
  /\ UNCHANGED <<error, dataVars, batchVars, cfgVars, evalVars, vocVars,
                 origin, grad, loopVars, trainVars,
                 draws, loss_calls, n_clip>>

\* decoder_optimizer.step()
StepDecoder ==
  /\ pc = "step_decoder"
  /\ OptimizerStep("decoder_optimizer", decoder_parameters)
  /\ phases' = Append(phases, "step_decoder")
  /\ pc' = "return"
  /\ UNCHANGED <<error, dataVars, batchVars, cfgVars, evalVars, vocVars,
                 origin, grad, loopVars, trainVars,
                 draws, loss_calls, n_clip>>

\* the sum divided by the number of timesteps
TrainResultPerStep(losses, n) == RatDiv(SumRats(losses), Len(losses))

\* the value train() returns: sum(print_losses) / n_totals
TrainResult(losses, n) == RatDiv(SumRats(losses), n)

\* return sum(print_losses) / n_totals; the locals of the call are gone
TrainReturn ==
  /\ pc = "return"
  /\ IF n_totals = 0
     THEN /\ error' = "ZeroDivisionError" /\ pc' = "crashed"
          /\ UNCHANGED <<ti_loss, ran, phases>>
     ELSE /\ ti_loss' = TrainResult(print_losses, n_totals)
          /\ ran' = Append(ran, <<iteration, ti_loss'>>)
          /\ phases' = Append(phases, "return")
          /\ pc' = "after_train"
          /\ UNCHANGED error
  /\ loss' = <<0, 1>> /\ print_losses' = << >> /\ n_totals' = 0
  /\ decoder_input' = << >> /\ topi' = << >> /\ use_teacher_forcing' = FALSE /\ t' = 0
  /\ UNCHANGED <<dataVars, batchVars, cfgVars, evalVars, vocVars,
                 modelVars, checkpoint, training_batches,
                 start_iteration, iteration, print_loss, saved, logged, training_batch,
                 draws, loss_calls, n_clip, n_step>>

Train ==
  \/ ZeroGradEncoder \/ ZeroGradDecoder \/ EncoderForward \/ DecoderInit
  \/ TeacherForcingStep \/ FreeRunningStep \/ Backward
  \/ ClipEncoder \/ ClipDecoder \/ StepEncoder \/ StepDecoder \/ TrainReturn

\* ------------------------------------------------ one call of train() alone
\* the pair lists the single call is tried on: responses of 1 and 2 words
\* the batch sizes the single call is tried with
TrainBatchSizes == {1, 2}

TrainPairs ==
  {<<(<<"a">>), (<<"b">>)>>, <<(<<"a", "b">>), (<<"b", "a">>)>>, <<(<<"b">>), (<<"a", "b">>)>>}

BuiltModel ==
  /\ origin = [c \in Components |-> "fresh"]
  /\ weights = [p \in Params |-> 0]
  /\ grad = [p \in Params |-> "none"]
  /\ opt_steps = [o \in {"encoder_optimizer", "decoder_optimizer"} |->
                    IF o = "encoder_optimizer" THEN [p \in encoder_parameters |-> 0]
                    ELSE [p \in decoder_parameters |-> 0]]

InitTrain ==
  /\ pc = "zero_grad_encoder"
  /\ error = "none"
  /\ voc = addSentence(VocInit, <<"a", "b">>)
  /\ pairs = << >>
  /\ IdleBatch
  /\ loadFilename = "None" /\ ckptFile = NoCheckpoint /\ n_iteration = 1
  /\ print_every = 1 /\ save_every = 1
  /\ teacher_forcing_ratio \in {0, 5, 10}
  /\ batch_size \in TrainBatchSizes
  /\ BuiltModel
  /\ checkpoint = NoCheckpoint /\ training_batches = << >> /\ start_iteration = 1
  /\ iteration = 1 /\ print_loss = <<0, 1>> /\ ti_loss = <<0, 1>>
  /\ saved = << >> /\ logged = << >> /\ ran = << >>
  /\ \E l \in [1..batch_size -> TrainPairs] : training_batch = batch2TrainData(voc, l).ret
  /\ loss = <<0, 1>> /\ print_losses = << >> /\ n_totals = 0
  /\ decoder_input = << >> /\ topi = << >> /\ use_teacher_forcing = FALSE /\ t = 0
  /\ IdleObs /\ IdleEval /\ IdleVoc

NextTrain == Train

SpecTrain == InitTrain /\ [][NextTrain]_vars

\* ------------------------------------------- module level: restore and build
Crash(e) == error' = e /\ pc' = "crashed"

\* if loadFilename: checkpoint = torch.load(loadFilename); ...;
\* voc.__dict__ = checkpoint['voc_dict']
LoadCheckpoint ==
  /\ pc = "load"
  /\ IF loadFilename # "None"
     THEN /\ checkpoint' = ckptFile
          /\ voc' = ckptFile.voc_dict
          /\ origin' = [origin EXCEPT !["voc"] = "checkpoint"]
     ELSE UNCHANGED <<checkpoint, voc, origin>>
  /\ pc' = "embedding"
  /\ UNCHANGED <<error, pairs, batchVars, cfgVars, evalVars, vocVars,
                 weights, grad, opt_steps, training_batches,
                 start_iteration, iteration, print_loss, ti_loss, saved, logged, ran,
                 trainVars, obsVars>>

\* module.load_state_dict(sd) accepts sd only with the module's own shapes
Loadable(sd) == sd.shape = "cfg"

\* the tensors ps take the values of the state_dict sd
LoadWeights(w, ps, sd) == [p \in Params |-> IF p \in ps THEN sd.w[p] ELSE w[p]]

\* embedding = nn.Embedding(voc.num_words, hidden_size);
\* if loadFilename: embedding.load_state_dict(embedding_sd)
BuildEmbedding ==
  /\ pc = "embedding"
  /\ IF loadFilename = "None"
     THEN /\ origin' = [origin EXCEPT !["embedding"] = "fresh"]
          /\ pc' = "models"
          /\ UNCHANGED <<error, weights>>
     ELSE IF ~Loadable(checkpoint.embedding)
     THEN /\ origin' = [origin EXCEPT !["embedding"] = "fresh"]
          /\ Crash("RuntimeError")
          /\ UNCHANGED weights
     ELSE /\ origin' = [origin EXCEPT !["embedding"] = "checkpoint"]
          /\ weights' = LoadWeights(weights, {"embedding"}, checkpoint.embedding)
          /\ pc' = "models"
          /\ UNCHANGED error
  /\ UNCHANGED <<dataVars, batchVars, cfgVars, evalVars, vocVars,
                 grad, opt_steps, loopVars, trainVars, obsVars>>

\* encoder = EncoderRNN(...); decoder = LuongAttnDecoderRNN(...);
\* if loadFilename: encoder.load_state_dict(encoder_sd); decoder.load_state_dict(decoder_sd)
BuildModels ==
  /\ pc = "models"
  /\ IF loadFilename = "None"
     THEN /\ origin' = [origin EXCEPT !["encoder"] = "fresh", !["decoder"] = "fresh"]
          /\ pc' = "optimizers"
          /\ UNCHANGED <<error, weights>>
     ELSE IF ~Loadable(checkpoint.en)
     THEN /\ origin' = [origin EXCEPT !["encoder"] = "fresh", !["decoder"] = "fresh"]
          /\ Crash("RuntimeError")
          /\ UNCHANGED weights
     ELSE IF ~Loadable(checkpoint.de)
     THEN /\ origin' = [origin EXCEPT !["encoder"] = "checkpoint", !["decoder"] = "fresh"]
          /\ weights' = LoadWeights(weights, encoder_parameters, checkpoint.en)
          /\ Crash("RuntimeError")
     ELSE /\ origin' = [origin EXCEPT !["encoder"] = "checkpoint", !["decoder"] = "checkpoint"]
          /\ weights' = LoadWeights(LoadWeights(weights, encoder_parameters, checkpoint.en),
                                    decoder_parameters, checkpoint.de)
          /\ pc' = "optimizers"
          /\ UNCHANGED error
  /\ UNCHANGED <<dataVars, batchVars, cfgVars, evalVars, vocVars,
                 grad, opt_steps, loopVars, trainVars, obsVars>>

\* encoder_optimizer = optim.Adam(encoder.parameters(), ...);
\* decoder_optimizer = optim.Adam(decoder.parameters(), ...);
\* if loadFilename: the two load_state_dict calls
BuildOptimizers ==
  /\ pc = "optimizers"
  /\ LET new == [o \in {"encoder_optimizer", "decoder_optimizer"} |->
                   IF o = "encoder_optimizer" THEN [p \in encoder_parameters |-> 0]
                   ELSE [p \in decoder_parameters |-> 0]]
         built == [origin EXCEPT !["encoder_optimizer"] = "fresh",
                                 !["decoder_optimizer"] = "fresh"]
     IN  IF loadFilename = "None"
         THEN /\ origin' = built /\ opt_steps' = new
              /\ pc' = "trainIters"
              /\ UNCHANGED error
         ELSE IF ~Loadable(checkpoint.en_opt)
         THEN /\ origin' = built /\ opt_steps' = new
              /\ Crash("ValueError")
         ELSE IF ~Loadable(checkpoint.de_opt)
         THEN /\ origin' = [built EXCEPT !["encoder_optimizer"] = "checkpoint"]
              /\ opt_steps' = [new EXCEPT !["encoder_optimizer"] = checkpoint.en_opt.w]
              /\ Crash("ValueError")
         ELSE /\ origin' = [built EXCEPT !["encoder_optimizer"] = "checkpoint",
                                         !["decoder_optimizer"] = "checkpoint"]
              /\ opt_steps' = [new EXCEPT !["encoder_optimizer"] = checkpoint.en_opt.w,
                                          !["decoder_optimizer"] = checkpoint.de_opt.w]
              /\ pc' = "trainIters"
              /\ UNCHANGED error
  /\ UNCHANGED <<dataVars, batchVars, cfgVars, evalVars, vocVars,
                 weights, grad, loopVars, trainVars, obsVars>>

\* ---------------------------------------------------------------- trainIters
\* resuming at the iteration of the checkpoint itself
StartIterationRerun == IF loadFilename # "None" THEN checkpoint.iteration ELSE 1

\* start_iteration = 1; if loadFilename: start_iteration = checkpoint['iteration'] + 1
StartIteration == IF loadFilename # "None" THEN checkpoint.iteration + 1 ELSE 1

\* the pair lists of the batches: the list comprehension stops at the first
\* call of batch2TrainData that raises
Drawn(lists, built) ==
  IF \E n \in 1..Len(built) : built[n].raised # "none"
  THEN SubSeq(lists, 1, CHOOSE n \in 1..Len(built) :
                          /\ built[n].raised # "none"
                          /\ \A m \in 1..(n - 1) : built[m].raised = "none")
  ELSE lists

\* trainIters going on with the batches that could be built
TrainItersBeginSkipsBad ==
  /\ pc = "trainIters"
  /\ \E choice \in [1..n_iteration -> [1..batch_size -> 1..Len(pairs)]] :
       LET lists == [n \in 1..n_iteration |-> [i \in 1..batch_size |-> pairs[choice[n][i]]]]
           built == [n \in 1..n_iteration |-> batch2TrainData(voc, lists[n])]
           good == CHOOSE n \in 1..n_iteration :
                     (\E m \in 1..n_iteration : built[m].raised = "none")
                        => built[n].raised = "none"
       IN  /\ sampled' = lists
           /\ IF built[good].raised # "none"
              THEN /\ Crash(built[good].raised)
                   /\ UNCHANGED <<training_batches, start_iteration, iteration, print_loss>>
              ELSE /\ training_batches' =
                        [n \in 1..n_iteration |->
                           IF built[n].raised = "none" THEN built[n].ret ELSE built[good].ret]
                   /\ start_iteration' = StartIteration
                   /\ iteration' = start_iteration'
                   /\ print_loss' = <<0, 1>>
                   /\ pc' = "loop"
                   /\ UNCHANGED error
  /\ UNCHANGED <<dataVars, pair_batch, arg_batch, batch, cfgVars, evalVars, vocVars, modelVars,
                 checkpoint, ti_loss, saved, logged, ran, trainVars, obsVars>>

\* training_batches = [batch2TrainData(voc, [random.choice(pairs) ...]) ...];
\* print_loss = 0; start_iteration as above
TrainItersBegin ==
  /\ pc = "trainIters"
  /\ IF pairs = << >>
     THEN /\ Crash("IndexError")
          /\ UNCHANGED <<sampled, training_batches, start_iteration, iteration, print_loss>>
     ELSE \E choice \in [1..n_iteration -> [1..batch_size -> 1..Len(pairs)]] :
            LET lists == [n \in 1..n_iteration |->
                            [i \in 1..batch_size |-> pairs[choice[n][i]]]]
                built == [n \in 1..n_iteration |-> batch2TrainData(voc, lists[n])]
            IN  /\ sampled' = Drawn(lists, built)
                /\ IF \E n \in 1..n_iteration : built[n].raised # "none"
                   THEN /\ Crash(built[Len(sampled')].raised)
                        /\ UNCHANGED <<training_batches, start_iteration, iteration,
                                       print_loss>>
                   ELSE /\ training_batches' = [n \in 1..n_iteration |-> built[n].ret]
                        /\ start_iteration' = StartIteration
                        /\ iteration' = start_iteration'
                        /\ print_loss' = <<0, 1>>
                        /\ pc' = "loop"
                        /\ UNCHANGED error
  /\ UNCHANGED <<dataVars, pair_batch, arg_batch, batch, cfgVars, evalVars, vocVars, modelVars,
                 checkpoint, ti_loss, saved, logged, ran, trainVars, obsVars>>

\* for iteration in range(start_iteration, n_iteration + 1):
\*   training_batch = training_batches[iteration - 1]; loss = train(...)
LoopHead ==
  /\ pc = "loop"
  /\ IF iteration <= n_iteration
     THEN /\ training_batch' = training_batches[iteration]
          /\ pc' = "zero_grad_encoder"
          /\ ObsInit
     ELSE /\ pc' = "done"
          /\ UNCHANGED <<training_batch, obsVars>>
  /\ UNCHANGED <<error, dataVars, batchVars, cfgVars, evalVars, vocVars,
                 modelVars, loopVars, loss, print_losses,
                 n_totals, decoder_input, topi, use_teacher_forcing, t>>

\* a module's or an optimizer's state_dict
SnapshotOf(ps) == StateDict("cfg", [p \in ps |-> weights[p]])

\* the interval test one iteration early
SaveDueEarly == (iteration + 1) % save_every = 0

\* if (iteration % save_every == 0):
SaveDue == iteration % save_every = 0

\* the dict handed to torch.save
CheckpointRecord ==
  Checkpoint(iteration, SnapshotOf(encoder_parameters), SnapshotOf(decoder_parameters),
             StateDict("cfg", opt_steps["encoder_optimizer"]),
             StateDict("cfg", opt_steps["decoder_optimizer"]),
             ti_loss, voc, SnapshotOf({"embedding"}))

\* the rest of the loop body: print_loss += loss; the progress line every
\* print_every iterations; torch.save every save_every iterations
AfterTrain ==
  /\ pc = "after_train"
  /\ LET sum == RatAdd(print_loss, ti_loss)
     IN  IF iteration % print_every = 0
         THEN /\ logged' = Append(logged, <<iteration, RatDiv(sum, print_every)>>)
              /\ print_loss' = <<0, 1>>
         ELSE /\ print_loss' = sum
              /\ UNCHANGED logged
  /\ IF SaveDue
     THEN saved' = Append(saved, CheckpointRecord)
     ELSE UNCHANGED saved
  /\ iteration' = iteration + 1
  /\ pc' = "loop"
  /\ UNCHANGED <<error, dataVars, batchVars, cfgVars, evalVars, vocVars,
                 modelVars, checkpoint, training_batches,
                 start_iteration, ti_loss, ran, trainVars, obsVars>>

\* ---------------------------------------------------------- the whole program
Init ==
  /\ pc = "load"
  /\ error = "none"
  /\ voc = Prepared.voc
  /\ pairs = Prepared.pairs
  /\ IdleBatch
  /\ loadFilename \in {"None", "checkpoint.tar"}
  /\ ckptFile \in IF loadFilename = "None" THEN {NoCheckpoint} ELSE CheckpointFiles
  /\ n_iteration = NIteration
  /\ print_every \in 1..MaxEvery
  /\ save_every \in 1..MaxEvery
  /\ teacher_forcing_ratio \in {5, 10}
  /\ batch_size = 1
  /\ IdleModel /\ IdleLoop /\ IdleTrain /\ IdleObs /\ IdleEval /\ IdleVoc

Next ==
  \/ LoadCheckpoint \/ BuildEmbedding \/ BuildModels \/ BuildOptimizers
  \/ TrainItersBegin \/ LoopHead \/ Train \/ AfterTrain

Spec == Init /\ [][Next]_vars

\* ---------------------------------------------------------- normalizeString
\* a string is the sequence of its characters; the characters the input lines
\* of the model are written in
Letters == {"a", "b", "i", "q", "t", "u", "z", "A", "Q"}
Punctuation == {".", "!", "?"}

\* str.lower() of one character
Lower(c) == IF c = "A" THEN "a" ELSE IF c = "Q" THEN "q" ELSE c

RECURSIVE lstrip(_)
lstrip(s) == IF s # << >> /\ Head(s) = " " THEN lstrip(Tail(s)) ELSE s

RECURSIVE rstrip(_)
rstrip(s) == IF s # << >> /\ s[Len(s)] = " " THEN rstrip(SubSeq(s, 1, Len(s) - 1)) ELSE s

strip(s) == rstrip(lstrip(s))

\* re.sub(r"([.!?])", r" \1", s)
RECURSIVE SpacePunctuation(_)
SpacePunctuation(s) ==
  IF s = << >> THEN << >>
  ELSE (IF Head(s) \in Punctuation THEN <<" ", Head(s)>> ELSE <<Head(s)>>)
       \o SpacePunctuation(Tail(s))

\* re.sub(<class>+, " ", s): every maximal run of characters of the class
\* becomes one space
RECURSIVE SubRuns(_, _)
SubRuns(s, class) ==
  IF s = << >> THEN << >>
  ELSE IF Head(s) \notin class THEN <<Head(s)>> \o SubRuns(Tail(s), class)
  ELSE IF Tail(s) # << >> /\ Head(Tail(s)) \in class THEN SubRuns(Tail(s), class)
  ELSE <<" ">> \o SubRuns(Tail(s), class)

\* the characters of the model outside [a-zA-Z.!?]
Others == {" ", "1"}

normalizeString(s) ==
  LET s1 == strip([i \in 1..Len(s) |-> Lower(s[i])])
      s2 == SpacePunctuation(s1)
      s3 == SubRuns(s2, Others)
  IN  strip(SubRuns(s3, {" "}))

\* str.split(" "): the words between single spaces, empty words included
RECURSIVE splitFrom(_, _)
splitFrom(s, word) ==
  IF s = << >> THEN <<word>>
  ELSE IF Head(s) = " " THEN <<word>> \o splitFrom(Tail(s), "")
  ELSE splitFrom(Tail(s), word \o Head(s))

split(s) == splitFrom(s, "")

\* ------------------------------------------------------------ attention layer
\* Attn.__init__ without the test of the method name
AttnInitUnchecked(method) ==
  [raised |-> "none",
   attn |-> [method |-> method,
             layers |-> IF method = "general" THEN {"attn"}
                        ELSE IF method = "concat" THEN {"attn", "v"} ELSE {}]]

\* Attn.__init__(method, hidden_size): the exception raised (if any) and the object
AttnInit(method) ==
  IF method \notin {"dot", "general", "concat"}
  THEN [raised |-> "ValueError", attn |-> NoAttn]
  ELSE [raised |-> "none",
        attn |-> [method |-> method,
                  layers |-> IF method = "general" THEN {"attn"}
                             ELSE IF method = "concat" THEN {"attn", "v"} ELSE {}]]

\* Attn.forward: the score function it calls; with no branch taken
\* attn_energies is unbound at the transpose
AttnForward(a) ==
  IF a.method = "general"
  THEN [raised |-> IF "attn" \in a.layers THEN "none" ELSE "AttributeError",
        score |-> "general_score"]
  ELSE IF a.method = "concat"
  THEN [raised |-> IF {"attn", "v"} \subseteq a.layers THEN "none" ELSE "AttributeError",
        score |-> "concat_score"]
  ELSE IF a.method = "dot"
  THEN [raised |-> "none", score |-> "dot_score"]
  ELSE [raised |-> "UnboundLocalError", score |-> "none"]

\* ---------------------------------------------- evaluateInput and the searcher
\* longest max_length evaluate is called with (MAX_LENGTH in the source)
MaxLength == 2

\* the softmax scores of the chosen tokens
Scores == {1, 2}

\* the method names the decoder is configured with
AttnModels == {"dot", "general", "concat", "bilinear"}

\* the lines input('> ') returns
QuitLines == {<<"q">>, <<"q", "u", "i", "t">>}
InputLines ==
  QuitLines \cup
  {<<"Q">>, <<" ", "q">>, <<"a">>, <<"A", " ", "b">>, <<"b", "1", " ", "a">>, <<"a", "!">>,
   <<"z">>, << >>}

UnknownWordMessage == <<"Error: Encountered unknown word.">>

InitEval ==
  /\ pc = "build_decoder"
  /\ error = "none"
  /\ voc = addSentence(VocInit, <<"a", "b">>)
  /\ pairs = << >>
  /\ IdleBatch /\ IdleCfg /\ IdleModel /\ IdleLoop /\ IdleTrain /\ IdleObs /\ IdleVoc
  /\ attn_model \in AttnModels
  /\ attn = NoAttn
  /\ max_length \in 0..MaxLength
  /\ input_sentence = << >> /\ input_seq = << >> /\ all_tokens = << >> /\ all_scores = << >>
  /\ printed = << >> /\ n_encoder = 0 /\ fed = << >> /\ scored = "none"

\* decoder = LuongAttnDecoderRNN(attn_model, ...): self.attn = Attn(attn_model, hidden_size)
BuildDecoder ==
  /\ pc = "build_decoder"
  /\ LET r == AttnInit(attn_model)
     IN  IF r.raised # "none"
         THEN Crash(r.raised) /\ UNCHANGED attn
         ELSE attn' = r.attn /\ pc' = "prompt" /\ UNCHANGED error
  /\ UNCHANGED <<dataVars, batchVars, cfgVars, modelVars, loopVars, trainVars, obsVars, vocVars,
                 attn_model, max_length, input_sentence, input_seq, all_tokens, all_scores,
                 printed, n_encoder, fed, scored>>

\* input_sentence = input('> '); if input_sentence == 'q' or input_sentence == 'quit': break
ReadLine ==
  /\ pc = "prompt"
  /\ \E line \in InputLines :
       /\ input_sentence' = line
       /\ pc' = IF line = <<"q">> \/ line = <<"q", "u", "i", "t">> THEN "ended" ELSE "evaluate"
  /\ UNCHANGED <<error, dataVars, batchVars, cfgVars, modelVars, loopVars, trainVars, obsVars,
                 vocVars, attn_model, attn, max_length, input_seq, all_tokens, all_scores,
                 printed, n_encoder, fed, scored>>

\* the try block without its except clause
EvaluateInputExceptNone(e) == Crash(e) /\ UNCHANGED printed

\* except KeyError: print("Error: Encountered unknown word."); any other
\* exception e leaves the loop
EvaluateInputExcept(e) ==
  IF e = "KeyError"
  THEN printed' = UnknownWordMessage /\ pc' = "prompt" /\ UNCHANGED error
  ELSE Crash(e) /\ UNCHANGED printed

\* input_sentence = normalizeString(input_sentence); evaluate(...) up to the
\* call of the searcher: indexes_batch = [indexesFromSentence(voc, sentence)]
Evaluate ==
  /\ pc = "evaluate"
  /\ input_sentence' = normalizeString(input_sentence)
  /\ LET sentence == split(input_sentence')
     IN  IF ~KnownSentence(voc, sentence)
         THEN EvaluateInputExcept("KeyError") /\ UNCHANGED input_seq
         ELSE /\ input_seq' = zeroPadding(<<indexesFromSentence(voc, sentence)>>, PAD_token)
              /\ pc' = "greedy_encoder"
              /\ UNCHANGED <<error, printed>>
  /\ n_encoder' = 0 /\ fed' = << >>
  /\ UNCHANGED <<dataVars, batchVars, cfgVars, modelVars, loopVars, trainVars, obsVars, vocVars,
                 attn_model, attn, max_length, all_tokens, all_scores, scored>>

\* GreedySearchDecoder.forward up to its loop: the encoder call, the SOS input,
\* the empty result tensors
GreedyEncoder ==
  /\ pc = "greedy_encoder"
  /\ n_encoder' = n_encoder + 1
  /\ decoder_input' = <<SOS_token>>
  /\ all_tokens' = << >> /\ all_scores' = << >>
  /\ t' = 0
  /\ pc' = "greedy_loop"
  /\ UNCHANGED <<error, dataVars, batchVars, cfgVars, modelVars, loopVars, training_batch, loss,
                 print_losses, n_totals, topi, use_teacher_forcing, obsVars, vocVars,
                 attn_model, attn, max_length, input_sentence, input_seq, printed, fed, scored>>

\* the loop body ending at the first EOS token
GreedyStepStopsAtEOS ==
  /\ pc = "greedy_loop" /\ t < max_length
  /\ fed' = Append(fed, decoder_input[1])
  /\ scored' = AttnForward(attn).score
  /\ \E token \in 0..(voc.num_words - 1), score \in Scores :
       /\ all_tokens' = Append(all_tokens, token)
       /\ all_scores' = Append(all_scores, score)
       /\ decoder_input' = <<token>>
       /\ t' = IF token = EOS_token THEN max_length ELSE t + 1
  /\ UNCHANGED <<pc, error, printed>>
  /\ UNCHANGED <<dataVars, batchVars, cfgVars, modelVars, loopVars, training_batch, loss,
                 print_losses, n_totals, topi, use_teacher_forcing, obsVars, vocVars,
                 attn_model, attn, max_length, input_sentence, input_seq, n_encoder>>

\* one pass of "for _ in range(max_length)" (t counts the passes): the decoder
\* call, whose attention layer scores, then torch.max and the two torch.cat
GreedyStep ==
  /\ pc = "greedy_loop" /\ t < max_length
  /\ fed' = Append(fed, decoder_input[1])
  /\ LET a == AttnForward(attn)
     IN  IF a.raised # "none"
         THEN /\ EvaluateInputExcept(a.raised)
              /\ UNCHANGED <<all_tokens, all_scores, decoder_input, t, scored>>
         ELSE /\ scored' = a.score
              /\ \E token \in 0..(voc.num_words - 1), score \in Scores :
                   /\ all_tokens' = Append(all_tokens, token)
                   /\ all_scores' = Append(all_scores, score)
                   /\ decoder_input' = <<token>>
              /\ t' = t + 1
              /\ UNCHANGED <<pc, error, printed>>
  /\ UNCHANGED <<dataVars, batchVars, cfgVars, modelVars, loopVars, training_batch, loss,
                 print_losses, n_totals, topi, use_teacher_forcing, obsVars, vocVars,
                 attn_model, attn, max_length, input_sentence, input_seq, n_encoder>>

\* return all_tokens, all_scores
GreedyReturn ==
  /\ pc = "greedy_loop" /\ t >= max_length
  /\ pc' = "respond"
  /\ UNCHANGED <<error, dataVars, batchVars, cfgVars, modelVars, loopVars, trainVars, obsVars,
                 evalVars, vocVars>>

\* decoded_words = [voc.index2word[token.item()] for token in tokens];
\* the words but 'EOS' and 'PAD' are printed
Respond ==
  /\ pc = "respond"
  /\ IF \E i \in 1..Len(all_tokens) : all_tokens[i] \notin DOMAIN voc.index2word
     THEN EvaluateInputExcept("KeyError")
     ELSE LET decoded_words == [i \in 1..Len(all_tokens) |-> voc.index2word[all_tokens[i]]]
              shown(x) == ~(x = "EOS" \/ x = "PAD")
          IN  /\ printed' = <<"Bot:">> \o SelectSeq(decoded_words, shown)
              /\ pc' = "prompt"
              /\ UNCHANGED error
  /\ all_tokens' = << >> /\ all_scores' = << >> /\ decoder_input' = << >> /\ t' = 0
  /\ UNCHANGED <<dataVars, batchVars, cfgVars, modelVars, loopVars, training_batch, loss,
                 print_losses, n_totals, topi, use_teacher_forcing, obsVars, vocVars,
                 attn_model, attn, max_length, input_sentence, input_seq, n_encoder, fed, scored>>

NextEval ==
  \/ BuildDecoder \/ ReadLine \/ Evaluate \/ GreedyEncoder \/ GreedyStep \/ GreedyReturn
  \/ Respond

SpecEval == InitEval /\ [][NextEval]_vars

\* the searcher's forward is a finite computation: each of its steps is taken
SpecEvalFair ==
  SpecEval /\ WF_vars(GreedyEncoder) /\ WF_vars(GreedyStep) /\ WF_vars(GreedyReturn)

\* ------------------------------------------------ the vocabulary as a program
\* Voc operations a run of the vocabulary program performs at most
MaxOps == 4

VocWords == {"a", "b", "EOS"}
VocSentences == {<<"a", "b">>, <<"b", "b", "a">>}
MinCounts == {1, 2, 3}
VocPairs ==
  {<<(<<"a">>), (<<"b">>)>>, <<(<<"b", "a">>), (<<"a">>)>>, <<(<<"b">>), (<<"b">>)>>,
   <<(<<"b">>), (<<"c">>)>>}

InitVoc ==
  /\ pc = "voc"
  /\ error = "none"
  /\ voc = VocInit
  /\ pairs \in UNION {[1..k -> VocPairs] : k \in 0..MaxB}
  /\ IdleBatch /\ IdleCfg /\ IdleModel /\ IdleLoop /\ IdleTrain /\ IdleObs /\ IdleEval /\ IdleVoc

VocReady == pc \in {"voc", "trim_done"} /\ ops < MaxOps

\* voc.addWord(word)
VocAddWord ==
  /\ VocReady
  /\ \E word \in VocWords : voc' = addWord(voc, word)
  /\ ops' = ops + 1
  /\ pc' = "voc"
  /\ UNCHANGED <<error, pairs, batchVars, cfgVars, modelVars, loopVars, trainVars, obsVars,
                 evalVars, arg_pairs, arg_min_count>>

\* voc.addSentence(sentence)
VocAddSentence ==
  /\ VocReady
  /\ \E sentence \in VocSentences : voc' = addSentence(voc, sentence)
  /\ ops' = ops + 1
  /\ pc' = "voc"
  /\ UNCHANGED <<error, pairs, batchVars, cfgVars, modelVars, loopVars, trainVars, obsVars,
                 evalVars, arg_pairs, arg_min_count>>

\* voc.trim(min_count)
VocTrim ==
  /\ VocReady
  /\ \E min_count \in MinCounts : voc' = trim(voc, min_count)
  /\ IF trimRaised(voc) # "none"
     THEN Crash(trimRaised(voc))
     ELSE pc' = "voc" /\ UNCHANGED error
  /\ ops' = ops + 1
  /\ UNCHANGED <<pairs, batchVars, cfgVars, modelVars, loopVars, trainVars, obsVars,
                 evalVars, arg_pairs, arg_min_count>>

\* pairs = trimRareWords(voc, pairs, MIN_COUNT)
CallTrimRareWords ==
  /\ VocReady
  /\ \E min_count \in MinCounts :
       LET r == trimRareWords(voc, pairs, min_count)
       IN  /\ arg_pairs' = pairs
           /\ arg_min_count' = min_count
           /\ voc' = r.voc
           /\ IF r.raised # "none"
              THEN Crash(r.raised) /\ UNCHANGED pairs
              ELSE pairs' = r.pairs /\ pc' = "trim_done" /\ UNCHANGED error
  /\ ops' = ops + 1
  /\ UNCHANGED <<batchVars, cfgVars, modelVars, loopVars, trainVars, obsVars, evalVars>>

NextVoc == VocAddWord \/ VocAddSentence \/ VocTrim \/ CallTrimRareWords

SpecVoc == InitVoc /\ [][NextVoc]_vars

\* ================================================================ properties
\* number of leading non-PAD tokens of column i of a tensor
LeadingNonPad(tensor, i) ==
  Cardinality({n \in 1..Len(tensor) : \A m \in 1..n : tensor[m][i] # PAD_token})

Occurrences(l, x) == Cardinality({i \in 1..Len(l) : l[i] = x})

\* C4: for a list of B pairs whose words are all in the vocabulary,
\* batch2TrainData returns an input tensor of exactly B columns and B lengths,
\* non-increasing; length i is the number of leading non-PAD tokens of column i,
\* which is the word count of query i plus one, and column i is PAD from there on.
C4_InputLengths ==
  pc = "batch_done" =>
    LET B == Len(arg_batch)
    IN  /\ Len(batch.inp) >= 1
        /\ \A n \in 1..Len(batch.inp) : Len(batch.inp[n]) = B
        /\ Len(batch.lengths) = B
        /\ \A i \in 1..(B - 1) : batch.lengths[i] >= batch.lengths[i + 1]
        /\ \A x \in Range(arg_batch) : Occurrences(pair_batch, x) = Occurrences(arg_batch, x)
        /\ \A i \in 1..B :
             /\ batch.lengths[i] = LeadingNonPad(batch.inp, i)
             /\ batch.lengths[i] = Len(pair_batch[i][1]) + 1
             /\ \A n \in 1..Len(batch.inp) :
                  n > batch.lengths[i] => batch.inp[n][i] = PAD_token

\* the sort moved a longer query in front of a shorter one, which is padded
C4_Witness ==
  /\ pc = "batch_done"
  /\ Len(arg_batch) = 2
  /\ Len(arg_batch[1][1]) < Len(arg_batch[2][1])
  /\ batch.lengths = <<3, 2>>
  /\ batch.inp[3][2] = PAD_token

\* C5: the mask has the shape of the target tensor (max_target_len rows, B
\* columns); mask[t][i] is true iff target_tensor[t][i] is not PAD, iff t is
\* below the token count (words plus EOS) of response i.
C5_MaskMatchesTarget ==
  pc = "batch_done" =>
    LET B == Len(arg_batch)
    IN  /\ Len(batch.output) = batch.max_target_len
        /\ Len(batch.mask) = batch.max_target_len
        /\ \A n \in 1..batch.max_target_len :
             /\ Len(batch.output[n]) = B
             /\ Len(batch.mask[n]) = B
             /\ \A i \in 1..B :
                  /\ batch.mask[n][i] \in BOOLEAN
                  /\ batch.mask[n][i] <=> batch.output[n][i] # PAD_token
                  /\ batch.output[n][i] # PAD_token <=> n <= Len(pair_batch[i][2]) + 1

\* a batch whose mask has a true and a false position in its last row
C5_Witness ==
  /\ pc = "batch_done"
  /\ Len(arg_batch) = 2
  /\ batch.max_target_len = 3
  /\ batch.mask[3] = <<FALSE, TRUE>>
  /\ batch.output[3][1] = PAD_token

\* ---------------------------------------------------------------- train()
ExpectedPhases(T) ==
  <<"zero_grad_encoder", "zero_grad_decoder", "encoder">>
  \o [i \in 1..T |-> "decoder"]
  \o <<"backward", "clip_encoder", "clip_decoder", "step_encoder", "step_decoder", "return">>

IsPrefix(p, q) == Len(p) <= Len(q) /\ p = SubSeq(q, 1, Len(p))

BeforeDecode == pc \in {"zero_grad_encoder", "zero_grad_decoder", "encoder", "decoder_init"}
AfterDecode == pc \in {"clip_encoder", "clip_decoder", "step_encoder", "step_decoder", "return"}
InTrain == BeforeDecode \/ pc = "decode" \/ AfterDecode

C1_PhasesInOrder ==
  /\ (InTrain \/ pc = "after_train") =>
       IsPrefix(phases, ExpectedPhases(training_batch.max_target_len))
  /\ pc = "after_train" => phases = ExpectedPhases(training_batch.max_target_len)

C1_CallAfterCall ==
  (pc = "loop" /\ pc' = "zero_grad_encoder") =>
     \/ ran = << >> /\ phases = << >>
     \/ /\ phases = ExpectedPhases(training_batch.max_target_len)
        /\ ran[Len(ran)][1] = iteration - 1
        /\ phases' = << >>

\* C1: every call of train() performs, in this order and once each: zero the
\* gradients of both optimizers, the encoder, the decoder/loss steps, backward,
\* clip encoder and decoder gradients, step encoder and decoder optimizer,
\* return; in trainIters a call begins only after the call before it has
\* performed all of them.
C1_PhaseOrder == [] C1_PhasesInOrder /\ [][C1_CallAfterCall]_vars

\* the second iteration of a fresh run has returned
C1_Witness ==
  /\ pc = "after_train"
  /\ loadFilename = "None"
  /\ iteration = 2
  /\ Len(ran) = 2
  /\ Len(phases) = 9 + training_batch.max_target_len

C2_OneDraw ==
  /\ BeforeDecode => draws = 0 /\ "decoder" \notin Range(phases)
  /\ (pc = "decode" \/ AfterDecode) => draws = 1
  /\ pc = "decode" =>
       decoder_input = IF t = 0 THEN [i \in 1..batch_size |-> SOS_token]
                       ELSE IF use_teacher_forcing THEN training_batch.output[t]
                       ELSE topi

C2_ModeKept == pc = "decode" => use_teacher_forcing' = use_teacher_forcing /\ draws' = draws

\* C2: the teacher-forcing mode is decided by one random draw per call, made
\* before the first decoder step, and kept for every timestep; the first
\* decoder input is a row of SOS tokens, the input of step t+1 is target row t
\* under teacher forcing and the decoder's own top token of step t otherwise.
C2_TeacherForcing == [] C2_OneDraw /\ [][C2_ModeKept]_vars

\* free running has fed back a token that is not the target token
C2_Witness ==
  /\ pc = "decode"
  /\ ~use_teacher_forcing
  /\ t = 2
  /\ decoder_input = topi
  /\ decoder_input # training_batch.output[2]

\* C3: every timestep train() iterates over a batch of batch2TrainData has a
\* mask-true position: maskNLLLoss never sees an all-false mask (no mean of
\* an empty selection, no nan loss, no division by zero at the return).
C3_NoEmptyMask ==
  /\ \A k \in 1..Len(loss_calls) : loss_calls[k].nTotal >= 1 /\ loss_calls[k].loss[2] # 0
  /\ (pc = "decode" /\ t < training_batch.max_target_len) =>
       \E i \in 1..batch_size : training_batch.mask[t + 1][i]
  /\ error = "none"

\* the last timestep of a batch of two, where one response has ended
C3_Witness ==
  /\ pc = "decode"
  /\ batch_size = 2
  /\ t = training_batch.max_target_len
  /\ t = 3
  /\ loss_calls[3].nTotal = 1
  /\ \E i \in 1..2 : ~training_batch.mask[3][i]

\* C6: train() returns (sum over the timesteps of mean masked loss * count of
\* mask-true positions) / (total count of mask-true positions), the average
\* per real token, whatever the number of timesteps and the batch size.
C6_PerTokenAverage ==
  pc = "after_train" =>
    LET calls == Len(loss_calls)
        N == SumInts([k \in 1..calls |-> loss_calls[k].nTotal])
        W == SumRats([k \in 1..calls |-> RatMul(loss_calls[k].loss, loss_calls[k].nTotal)])
        real == {<<k, i>> \in (1..training_batch.max_target_len) \X (1..batch_size) :
                   training_batch.mask[k][i]}
    IN  /\ calls = training_batch.max_target_len
        /\ N = Cardinality(real)
        /\ ti_loss[2] > 0
        /\ ti_loss[1] * N * W[2] = ti_loss[2] * W[1]

\* a batch of two whose token count (5) is neither the number of timesteps
\* (3) nor a multiple of the batch size, with a loss that is no integer
C6_Witness ==
  /\ pc = "after_train"
  /\ batch_size = 2
  /\ Len(loss_calls) = 3
  /\ SumInts([k \in 1..3 |-> loss_calls[k].nTotal]) = 5
  /\ ti_loss = <<7, 5>>

\* C7: in one training iteration every parameter tensor is clipped once and
\* updated once, the shared embedding table too.
C7_UpdatedOnce ==
  pc = "after_train" => \A p \in Params : n_step[p] = 1 /\ n_clip[p] = 1

\* -------------------------------------------------- trainIters and restore
\* the iteration a run has to begin with, by its inputs
FirstIteration == IF loadFilename # "None" THEN ckptFile.iteration + 1 ELSE 1

\* C8: resumed from a checkpoint saved at iteration k, trainIters runs exactly
\* the iterations k+1 .. n_iteration in increasing order (none if
\* k >= n_iteration) and never one numbered k or lower; without a checkpoint it
\* starts at 1; the checkpoints it writes carry the continued numbers.
C8_ResumeNumbering ==
  /\ \A j \in 1..Len(ran) : ran[j][1] = FirstIteration + j - 1 /\ ran[j][1] <= n_iteration
  /\ InTrain => iteration = FirstIteration + Len(ran) /\ iteration <= n_iteration
  /\ pc = "done" =>
       Len(ran) = IF FirstIteration > n_iteration THEN 0
                  ELSE n_iteration - FirstIteration + 1
  /\ \A j \in 1..Len(saved) :
       /\ saved[j].iteration >= FirstIteration
       /\ \E i \in 1..Len(ran) : ran[i][1] = saved[j].iteration

\* a run resumed from the checkpoint of iteration 1 ran iteration 2 alone and
\* saved it under that number
C8_Witness ==
  /\ pc = "done"
  /\ loadFilename # "None"
  /\ ckptFile.iteration = 1
  /\ Len(ran) = 1
  /\ ran[1][1] = 2
  /\ Len(saved) = 1
  /\ saved[1].iteration = 2

Restoring == pc \in {"load", "embedding", "models", "optimizers"}

\* C9: restoring a checkpoint is all or nothing: once the restore is over or
\* has failed, either every live component holds checkpoint content or none
\* (vocabulary, embedding, encoder, decoder, optimizers) does.
C9_AtomicRestore ==
  (loadFilename # "None" /\ ~Restoring) =>
     \/ \A c \in Components : origin[c] = "checkpoint"
     \/ /\ \A c \in Components : origin[c] # "checkpoint"
        /\ voc = Prepared.voc

\* C10: trainIters writes a checkpoint at iteration i iff i is a multiple of
\* save_every, after train() of iteration i has returned (both optimizer
\* steps taken), with iteration field i and the loss train() returned for i.
C10_CheckpointEvery ==
  LET done == {ran[k][1] : k \in 1..Len(ran)}
                \ (IF pc = "after_train" THEN {iteration} ELSE {})
      base == IF loadFilename # "None" THEN ckptFile.en.w["encoder.gru"] ELSE 0
  IN  /\ \A i \in done :
           i % save_every = 0 <=> \E j \in 1..Len(saved) : saved[j].iteration = i
      /\ \A j \in 1..Len(saved) :
           /\ saved[j].iteration % save_every = 0
           /\ saved[j].iteration \in done
           /\ \A j2 \in 1..Len(saved) : saved[j2].iteration = saved[j].iteration => j2 = j
           /\ \E k \in 1..Len(ran) :
                /\ ran[k][1] = saved[j].iteration
                /\ ran[k][2] = saved[j].loss
                /\ saved[j].en.w["encoder.gru"] = base + k
                /\ saved[j].de.w["decoder.out"] = base + k
                /\ saved[j].en_opt.w["encoder.gru"] = base + k
                /\ saved[j].de_opt.w["decoder.out"] = base + k

\* with save_every = 2 a fresh run saved iteration 2 only, with the loss of
\* iteration 2, which differs from the loss of iteration 1
C10_Witness ==
  /\ pc = "done"
  /\ loadFilename = "None"
  /\ save_every = 2
  /\ Len(ran) = 2
  /\ Len(saved) = 1
  /\ saved[1].iteration = 2
  /\ saved[1].loss = ran[2][2]
  /\ ran[1][2] # ran[2][2]

\* the loss train() returned for iteration i in this run
LossOf(i) == ran[CHOOSE k \in 1..Len(ran) : ran[k][1] = i][2]

\* C11: every average loss trainIters logs, at an iteration i that is a
\* multiple of print_every, is the arithmetic mean of the losses train()
\* returned for the iterations i-print_every+1 .. i, in fresh runs and in runs
\* resumed from any checkpoint iteration.
C11_MovingAverage ==
  \A j \in 1..Len(logged) :
    LET i == logged[j][1]
        window == [m \in 1..print_every |-> i - print_every + m]
    IN  /\ i % print_every = 0
        /\ \A m \in 1..print_every : \E k \in 1..Len(ran) : ran[k][1] = window[m]
        /\ logged[j][2] = RatDiv(SumRats([m \in 1..print_every |-> LossOf(window[m])]),
                                 print_every)

\* the same for runs that start at iteration 1
C11_FreshRuns == loadFilename = "None" => C11_MovingAverage

\* ------------------------------------------------ the searcher and the session
\* the decoder inputs of the first n decoder calls: SOS, then each chosen token
FedBack(n) == [i \in 1..n |-> IF i = 1 THEN SOS_token ELSE all_tokens[i - 1]]

C12_Lengths ==
  /\ pc = "greedy_loop" =>
       /\ n_encoder = 1
       /\ t <= max_length
       /\ Len(all_tokens) = t /\ Len(all_scores) = t
       /\ fed = FedBack(t)
       /\ decoder_input = IF t = 0 THEN <<SOS_token>> ELSE <<all_tokens[t]>>
  /\ pc = "respond" =>
       /\ n_encoder = 1
       /\ Len(all_tokens) = max_length /\ Len(all_scores) = max_length
       /\ fed = FedBack(max_length)

C13_Turn ==
  /\ (pc = "evaluate" /\ pc' # pc /\ ~KnownSentence(voc, split(normalizeString(input_sentence))))
       => pc' = "prompt" /\ printed' = UnknownWordMessage /\ error' = "none"
  /\ pc # "build_decoder" =>
       voc' = voc /\ pairs' = pairs /\ attn' = attn /\ modelVars' = modelVars
  /\ (pc = "prompt" /\ pc' # pc) => (pc' = "ended" <=> input_sentence' \in QuitLines)
  /\ (pc' = "ended" /\ pc' # pc) => pc = "prompt"

\* the only exception that ends the program is the one of the construction,
\* before the loop has read a line
C13_LoopNeverRaises ==
  pc = "crashed" => attn = NoAttn /\ input_sentence = << >> /\ printed = << >>

\* C13: in evaluateInput a turn whose input has a word absent from the
\* vocabulary prints an error and the loop reads the next line, vocabulary and
\* model unchanged; no such turn ends the session, which ends exactly when a
\* line equals q or quit.
C13_Session == [][C13_Turn]_vars /\ [] C13_LoopNeverRaises

\* after a turn that reported an unknown word the next line is being answered
C13_Witness ==
  /\ pc = "greedy_loop"
  /\ printed = UnknownWordMessage
  /\ input_sentence = <<"a", " ", "b">>
  /\ voc = addSentence(VocInit, <<"a", "b">>)

\* C14: constructing the attention layer (and so the decoder) with a method
\* name outside {dot, general, concat} raises at construction, before any
\* forward call; with one of the three names construction succeeds and forward
\* uses exactly the score function of that name.
C14_AttnMethod ==
  IF attn_model \in {"dot", "general", "concat"}
  THEN /\ pc # "crashed" /\ error = "none"
       /\ pc # "build_decoder" => attn.method = attn_model
       /\ scored # "none" => scored = attn_model \o "_score"
       /\ Len(fed) >= 1 => scored # "none"
  ELSE /\ pc \in {"build_decoder", "crashed"}
       /\ pc = "crashed" => error = "ValueError"
       /\ attn = NoAttn /\ scored = "none" /\ fed = << >> /\ n_encoder = 0

\* the construction with the name 'bilinear' has raised
C14_Witness ==
  /\ pc = "crashed"
  /\ attn_model = "bilinear"
  /\ error = "ValueError"
  /\ scored = "none"

\* ------------------------------------------------- words outside the vocabulary
UnknownPair(pair) == ~KnownSentence(voc, pair[1]) \/ ~KnownSentence(voc, pair[2])

\* a pair drawn for a batch has a word the vocabulary lacks
DrewUnknown ==
  \E n \in 1..Len(sampled) : \E i \in 1..Len(sampled[n]) : UnknownPair(sampled[n][i])

C15_Aborted ==
  /\ DrewUnknown =>
       /\ pc = "crashed" /\ error = "KeyError"
       /\ training_batches = << >>
       /\ ran = << >> /\ phases = << >> /\ saved = << >> /\ logged = << >>
  /\ error = "KeyError" => DrewUnknown

\* C15: if a pair drawn for training has a word absent from the vocabulary,
\* the run ends with the error raised while the batches are built; nothing
\* recovers from it, no training iteration runs and no checkpoint is written.
C15_UnknownWordAborts == [] C15_Aborted /\ [][pc # "crashed"]_vars

\* the first batch could be built, the second has the word "b" the restored
\* vocabulary lacks: the run is over before iteration 1
C15_Witness ==
  /\ pc = "crashed"
  /\ error = "KeyError"
  /\ Len(sampled) = 2
  /\ ~UnknownPair(sampled[1][1])
  /\ UnknownPair(sampled[2][1])
  /\ ckptFile.iteration = 1
  /\ ran = << >>
  /\ saved = << >>

\* ------------------------------------------------------------- the vocabulary
\* p is q with some elements left out, the others in their order
IsSubsequence(p, q) ==
  \E f \in [1..Len(p) -> 1..Len(q)] :
    /\ \A i \in 1..Len(p) : q[f[i]] = p[i]
    /\ \A i \in 1..(Len(p) - 1) : f[i] < f[i + 1]

WordsOf(pair) == Range(pair[1]) \cup Range(pair[2])

\* C16: after trimRareWords(voc, pairs, min_count), for every pair list and
\* every min_count, every word of both sentences of every returned pair is a
\* key of voc.word2index, the returned pairs are input pairs in their original
\* order, and a pair is dropped iff one of its words is not in the trimmed
\* vocabulary.
C16_TrimmedPairsKnown ==
  pc = "trim_done" =>
    /\ \A i \in 1..Len(pairs) : WordsOf(pairs[i]) \subseteq DOMAIN voc.word2index
    /\ IsSubsequence(pairs, arg_pairs)
    /\ \A i \in 1..Len(arg_pairs) :
         Occurrences(pairs, arg_pairs[i]) =
           IF WordsOf(arg_pairs[i]) \subseteq DOMAIN voc.word2index
           THEN Occurrences(arg_pairs, arg_pairs[i]) ELSE 0

\* of two pairs the first lost its word "a" to the trimming and was dropped,
\* the second was kept
C16_Witness ==
  /\ pc = "trim_done"
  /\ Len(arg_pairs) = 2
  /\ "a" \in WordsOf(arg_pairs[1])
  /\ DOMAIN voc.word2index = {"b"}
  /\ pairs = <<arg_pairs[2]>>
  /\ arg_min_count = 3

\* C17: after any sequence of addWord, addSentence and trim the reserved
\* indices are as constructed (0 PAD, 1 SOS, 2 EOS in index2word) and no word
\* of word2index has an index below 3.
C17_ReservedIndices ==
  /\ voc.index2word[PAD_token] = "PAD"
  /\ voc.index2word[SOS_token] = "SOS"
  /\ voc.index2word[EOS_token] = "EOS"
  /\ PAD_token = 0 /\ SOS_token = 1 /\ EOS_token = 2
  /\ \A word \in DOMAIN voc.word2index : voc.word2index[word] >= 3

\* a trim has given the word "EOS", added after another word, the first free index
C17_Witness ==
  /\ voc.trimmed
  /\ "EOS" \in DOMAIN voc.word2index
  /\ voc.word2index["EOS"] = 3
  /\ voc.num_words = 4
  /\ ops = 4

\* ------------------------------------------------------------ the batch builder
\* C18: batch2TrainData is a pure function of (vocabulary, pairs): after the
\* call the caller's pair list holds the same pairs in the same order as
\* before and the vocabulary is unchanged.
C18_PureFunction ==
  [][pc = "batch_call" => (voc' = voc /\ pair_batch' = pair_batch)]_vars

\* column i of a tensor, and a column without its padding
Column(tensor, i) == [n \in 1..Len(tensor) |-> tensor[n][i]]
Unpadded(column) == SelectSeq(column, LAMBDA x : x # PAD_token)

\* C20: column i of the input tensor, of the target tensor and of the mask
\* are built from one and the same pair of the argument list, each pair of
\* the list in one column, also after the sort and with equal lengths or
\* duplicate pairs.
C20_Aligned ==
  pc = "batch_done" =>
    \E f \in [1..Len(arg_batch) -> 1..Len(arg_batch)] :
      /\ \A i, j \in 1..Len(arg_batch) : f[i] = f[j] => i = j
      /\ \A i \in 1..Len(arg_batch) :
           LET pair == arg_batch[f[i]]
           IN  /\ Unpadded(Column(batch.inp, i)) = indexesFromSentence(voc, pair[1])
               /\ batch.lengths[i] = Len(pair[1]) + 1
               /\ Unpadded(Column(batch.output, i)) = indexesFromSentence(voc, pair[2])
               /\ Column(batch.mask, i) =
                    [n \in 1..batch.max_target_len |-> n <= Len(pair[2]) + 1]

\* the sort has swapped two pairs with different responses: the response of
\* the longer query is in column 1
C20_Witness ==
  /\ pc = "batch_done"
  /\ Len(arg_batch) = 2
  /\ Len(arg_batch[1][1]) < Len(arg_batch[2][1])
  /\ arg_batch[1][2] # arg_batch[2][2]
  /\ Len(arg_batch[1][2]) > Len(arg_batch[2][2])
  /\ Unpadded(Column(batch.output, 1)) = indexesFromSentence(voc, arg_batch[2][2])
  /\ batch.mask[3] = <<FALSE, TRUE>>

\* --------------------------------------------------------- the decoder loop
C19_EveryStep ==
  /\ \A k \in 1..Len(loss_calls) :
       /\ loss_calls[k].target = training_batch.output[k]
       /\ loss_calls[k].mask = training_batch.mask[k]
  /\ pc = "decode" => Len(loss_calls) = t /\ t <= training_batch.max_target_len
  /\ AfterDecode => Len(loss_calls) = training_batch.max_target_len
  /\ (pc = "decode" \/ AfterDecode) =>
       Occurrences(phases, "decoder") = Len(loss_calls)

C19_StepByStep ==
  /\ (pc = "decode" /\ pc' = "decode") => t' = t + 1 \/ t' = t
  /\ (pc = "decode" /\ pc' # "decode") => t = training_batch.max_target_len

C21_VocBijection ==
  LET words == DOMAIN voc.word2index
  IN  /\ \A word \in words :
           /\ voc.word2index[word] \in DOMAIN voc.index2word
           /\ voc.index2word[voc.word2index[word]] = word
      /\ \A i \in DOMAIN voc.index2word :
           i >= 3 => /\ voc.index2word[i] \in words
                     /\ voc.word2index[voc.index2word[i]] = i
      /\ {voc.word2index[word] : word \in words} = 3..(voc.num_words - 1)
      /\ DOMAIN voc.index2word = 0..(voc.num_words - 1)
      /\ voc.num_words = 3 + Cardinality(words)
      /\ DOMAIN voc.word2count = words

\* "EOS" had index 3, "a" 4 and "b" 5; the trim dropped "EOS" and gave the
\* two kept words the indices 3 and 4
C21_Witness ==
  /\ voc.trimmed
  /\ voc.word2index = ("a" :> 3) @@ ("b" :> 4)
  /\ voc.index2word[3] = "a" /\ voc.index2word[4] = "b"
  /\ voc.word2count = ("a" :> 1) @@ ("b" :> 1)
  /\ voc.num_words = 5
  /\ ops = 4
====
